---- MODULE Spec2Model ----
(***************************************************************************)
(* A model of al60's graph data type (src/al60/data/graphs.py): the class  *)
(* Graph and its subclasses Undirected and Unweighted; of the iterators    *)
(* over it (src/al60/data/iterators.py); and of the algorithms built on    *)
(* the iterators (src/al60/algorithms.py).                                 *)
(*                                                                         *)
(* Python containers are objects with identity, so the model keeps a heap: *)
(* every set and dict a graph object owns lives at an address, and the     *)
(* graph object's fields hold addresses.  Whether two graph objects share  *)
(* a container is then something the copy constructor decides, not the     *)
(* shape of the model.  Every method is an operator from a heap to a       *)
(* record [h, res]: the heap the call leaves behind and "ok" or the error  *)
(* it raised.  A call that raises half way leaves the heap as mutated up   *)
(* to the raise.                                                           *)
(***************************************************************************)
EXTENDS Integers, Sequences, FiniteSets, TLC

\* Node values are 0..MaxNode.
MaxNode == 1
\* add_nodes is called with at most MaxBatch values.
MaxBatch == 3
\* A caller that holds a graph and a copy of it makes at most MaxAfterCopy
\* calls on the two.
MaxAfterCopy == 2

\* The graphs the iterators run on have at most MaxGraphNodes nodes, with
\* values in 0..MaxIterNode, and were built with at most MaxEdges add_edge
\* calls.
MaxIterNode == 3
MaxGraphNodes == 3
MaxEdges == 3
\* math.inf, above every finite distance of these graphs.
inf == 1000

Nodes == 0..MaxNode
IterNodes == 0..MaxIterNode
AllNodes == Nodes \cup IterNodes
Pairs == AllNodes \X AllNodes

\* The weights a caller supplies to add_edge; <<>> is "no weight supplied"
\* (Python's None), <<w>> is the weight w.
Weights == {-1, 0}
WeightArgs == {<<>>} \cup {<<w>> : w \in Weights}
\* The default_weight values a caller gives the constructor (1 is Python's
\* default for the parameter).
DefaultWeights == {1, 3}

GraphIds == {1, 2}
Kinds == {"Graph", "Undirected", "Unweighted"}
AdjFields == {"a_in", "a_out"}

VARIABLES
    objs,   \* graph id -> the graph object: its class and its fields
    heap,   \* the containers: node sets, adjacency sets, dicts, weight dicts
    last,   \* the last public call: method, receiver, arguments, outcome
    calls,  \* the calls made since a copy left the caller with two graphs
    it,     \* the iterator object the caller holds, and what it has yielded
    alg     \* the last call of a function of algorithms.py, and its outcome

vars == <<objs, heap, last, calls, it, alg>>

------------------------------------------------------------------------------
\* Helpers for Python's containers.

Range(s) == {s[i] : i \in DOMAIN s}

\* d[k] = x on a dict d
Put(d, k, x) == [y \in (DOMAIN d) \cup {k} |-> IF y = k THEN x ELSE d[y]]

\* del d[k] on a dict d
Del(d, k) == [y \in (DOMAIN d) \ {k} |-> d[y]]

EmptyDict == [y \in {} |-> 0]

\* Python truthiness of the weight argument: None and 0 are falsy.
Truthy(weight) == weight # <<>> /\ weight[1] # 0

------------------------------------------------------------------------------
\* Addresses.  A graph object g allocates its node set at address g, its two
\* adjacency dicts at <<g, "a_in">> and <<g, "a_out">>, its weight dict at g,
\* and the set it creates for node u in one of its dicts at <<g, f, u>>.

AdjAddrs == GraphIds \X AdjFields \X AllNodes
DictAddrs == GraphIds \X AdjFields

EmptyHeap ==
    [nodesets |-> [g \in GraphIds |-> {}],
     adjsets  |-> [a \in AdjAddrs |-> {}],
     dicts    |-> [d \in DictAddrs |-> EmptyDict],
     wdicts   |-> [g \in GraphIds |-> EmptyDict]]

\* A graph id no object has been constructed for.
NoObject(g) ==
    [kind |-> "none", id |-> g, nodes |-> g, a_in |-> <<g, "a_in">>,
     a_out |-> <<g, "a_out">>, weights |-> g, default_weight |-> 0]

\* Outcomes of a call: "ok", or the exception it raises.  Every error the
\* code raises itself is a ValueError; the outcome names the message it is
\* raised with ("is not defined" for a node, "is already defined" for a node
\* or an edge, "invalid edge"/"is not defined" for an edge).  "KeyError" is
\* the built-in exception of a dict lookup or a set.remove that misses.
Ok(h) == [h |-> h, res |-> "ok"]
Raise(h, e) == [h |-> h, res |-> e]

\* Reads through an object's fields.
NodeSet(h, o) == h.nodesets[o.nodes]
AIn(h, o) == h.dicts[o.a_in]
AOut(h, o) == h.dicts[o.a_out]
AInSet(h, o, u) == h.adjsets[AIn(h, o)[u]]
AOutSet(h, o, u) == h.adjsets[AOut(h, o)[u]]
WeightDict(h, o) == h.wdicts[o.weights]

------------------------------------------------------------------------------
\* class Graph: the checks every method starts with.  Each tells whether the
\* check passes.

verify_node_defined(h, o, u) == u \in NodeSet(h, o)

verify_node_undefined(h, o, u) == u \notin NodeSet(h, o)

\* "ok", or the error _verify_edge_defined raises.
verify_edge_defined(h, o, u, v) ==
    IF ~verify_node_defined(h, o, u) \/ ~verify_node_defined(h, o, v)
    THEN "NodeNotDefined"
    ELSE IF v \notin AOutSet(h, o, u) THEN "EdgeNotDefined" ELSE "ok"

\* The KeyError of self._a_out[u] for an undefined u is swallowed: the check
\* passes.
verify_edge_undefined(h, o, u, v) ==
    ~(u \in DOMAIN AOut(h, o) /\ v \in AOutSet(h, o, u))

------------------------------------------------------------------------------
\* class Graph: queries.  A query that can raise returns [res, val].

nodes(h, o) == NodeSet(h, o)

edges(h, o) ==
    {p \in Pairs : p[1] \in NodeSet(h, o) /\ p[2] \in AOutSet(h, o, p[1])}

weight(h, o, u, v) ==
    LET e == verify_edge_defined(h, o, u, v)
    IN IF e # "ok" THEN [res |-> e, val |-> 0]
       ELSE IF <<u, v>> \notin DOMAIN WeightDict(h, o)
            THEN [res |-> "KeyError", val |-> 0]
            ELSE [res |-> "ok", val |-> WeightDict(h, o)[<<u, v>>]]

Graph_parents(h, o, v) ==
    IF ~verify_node_defined(h, o, v)
    THEN [res |-> "NodeNotDefined", val |-> {}]
    ELSE [res |-> "ok", val |-> AInSet(h, o, v)]

Graph_neighbors(h, o, u) ==
    IF ~verify_node_defined(h, o, u)
    THEN [res |-> "NodeNotDefined", val |-> {}]
    ELSE [res |-> "ok", val |-> AOutSet(h, o, u)]

------------------------------------------------------------------------------
\* class Graph: mutations.

add_node(h, o, node) ==
    IF ~verify_node_undefined(h, o, node)
    THEN Raise(h, "NodeAlreadyDefined")
    ELSE LET ain == <<o.id, "a_in", node>>
             aout == <<o.id, "a_out", node>>
         IN Ok([h EXCEPT !.nodesets[o.nodes] = @ \cup {node},
                         !.adjsets[ain] = {},
                         !.dicts[o.a_in] = Put(@, node, ain),
                         !.adjsets[aout] = {},
                         !.dicts[o.a_out] = Put(@, node, aout)])

\* The loop of add_nodes from its i-th value on.
RECURSIVE add_each(_, _, _, _)
add_each(h, o, batch, i) ==
    IF i > Len(batch) THEN Ok(h)
    ELSE LET r == add_node(h, o, batch[i])
         IN IF r.res # "ok" THEN r ELSE add_each(r.h, o, batch, i + 1)

add_nodes(h, o, batch) ==
    LET prev == Range(batch) \cap nodes(h, o)
    IN IF prev # {} THEN Raise(h, "NodeAlreadyDefined")
       ELSE add_each(h, o, batch, 1)

Graph_add_edge(h, o, u, v, w) ==
    IF ~verify_node_defined(h, o, u) \/ ~verify_node_defined(h, o, v)
    THEN Raise(h, "NodeNotDefined")
    ELSE IF ~verify_edge_undefined(h, o, u, v)
    THEN Raise(h, "EdgeAlreadyDefined")
    ELSE LET h1 == [h EXCEPT !.adjsets[AIn(h, o)[v]] = @ \cup {u}]
             h2 == [h1 EXCEPT !.adjsets[AOut(h1, o)[u]] = @ \cup {v}]
             stored == IF Truthy(w) THEN w[1] ELSE o.default_weight
         IN Ok([h2 EXCEPT !.wdicts[o.weights] = Put(@, <<u, v>>, stored)])

\* del self._a_in[u] and del self._a_out[u] drop the only references to the
\* two sets, which are reset here: garbage has no state.
remove_node(h, o, u) ==
    IF ~verify_node_defined(h, o, u)
    THEN Raise(h, "NodeNotDefined")
    ELSE LET h1 == [h EXCEPT !.nodesets[o.nodes] = @ \ {u}]
             h2 == [h1 EXCEPT !.adjsets[AIn(h1, o)[u]] = {},
                              !.dicts[o.a_in] = Del(@, u)]
         IN Ok([h2 EXCEPT !.adjsets[AOut(h2, o)[u]] = {},
                          !.dicts[o.a_out] = Del(@, u)])

\* Graph.remove_edge taking the reverse edge out as well.
Graph_remove_edge_both_ways(h, o, u, v) ==
    LET e == verify_edge_defined(h, o, u, v)
    IN IF e # "ok" THEN Raise(h, e)
       ELSE LET h1 == [h EXCEPT !.adjsets[AOut(h, o)[u]] = @ \ {v}]
                h2 == [h1 EXCEPT !.adjsets[AOut(h1, o)[v]] = @ \ {u}]
            IN IF u \notin AInSet(h2, o, v) THEN Raise(h2, "KeyError")
               ELSE Ok([h2 EXCEPT !.adjsets[AIn(h2, o)[v]] = @ \ {u}])

\* set.remove raises KeyError when the element is missing.
Graph_remove_edge(h, o, u, v) ==
    LET e == verify_edge_defined(h, o, u, v)
    IN IF e # "ok" THEN Raise(h, e)
       ELSE LET h1 == [h EXCEPT !.adjsets[AOut(h, o)[u]] = @ \ {v}]
            IN IF u \notin AInSet(h1, o, v) THEN Raise(h1, "KeyError")
               ELSE Ok([h1 EXCEPT !.adjsets[AIn(h1, o)[v]] = @ \ {u}])

------------------------------------------------------------------------------
\* class Undirected(Graph).

Undirected_parents(h, o, v) ==
    LET r == Graph_parents(h, o, v)
    IN IF r.res # "ok" THEN r
       ELSE [res |-> "ok", val |-> r.val \cup AOutSet(h, o, v)]

Undirected_neighbors(h, o, u) ==
    LET r == Graph_neighbors(h, o, u)
    IN IF r.res # "ok" THEN r
       ELSE [res |-> "ok", val |-> r.val \cup AInSet(h, o, u)]

Undirected_add_edge(h, o, u, v, w) ==
    IF ~verify_node_defined(h, o, u) \/ ~verify_node_defined(h, o, v)
    THEN Raise(h, "NodeNotDefined")
    ELSE IF ~verify_edge_undefined(h, o, v, u)
    THEN Raise(h, "EdgeAlreadyDefined")
    ELSE Graph_add_edge(h, o, u, v, w)

\* The first if statement of Undirected.remove_edge: (u, v).
Undirected_remove_first(h, o, u, v) ==
    IF u \notin DOMAIN AOut(h, o) THEN Raise(h, "KeyError")
    ELSE IF v \notin AOutSet(h, o, u) THEN Ok(h)
    ELSE LET h1 == [h EXCEPT !.adjsets[AOut(h, o)[u]] = @ \ {v}]
         IN IF v \notin DOMAIN AIn(h1, o) THEN Raise(h1, "KeyError")
            ELSE IF u \notin AInSet(h1, o, v) THEN Raise(h1, "KeyError")
            ELSE Ok([h1 EXCEPT !.adjsets[AIn(h1, o)[v]] = @ \ {u}])

\* The second if statement, with its else: (v, u), read after the first ran.
Undirected_remove_second(h, o, u, v) ==
    IF v \notin DOMAIN AOut(h, o) THEN Raise(h, "KeyError")
    ELSE IF u \notin AOutSet(h, o, v) THEN Raise(h, "EdgeNotDefined")
    ELSE LET h1 == [h EXCEPT !.adjsets[AOut(h, o)[v]] = @ \ {u}]
         IN IF u \notin DOMAIN AIn(h1, o) THEN Raise(h1, "KeyError")
            ELSE IF v \notin AInSet(h1, o, u) THEN Raise(h1, "KeyError")
            ELSE Ok([h1 EXCEPT !.adjsets[AIn(h1, o)[u]] = @ \ {v}])

Undirected_remove_edge(h, o, u, v) ==
    LET r == Undirected_remove_first(h, o, u, v)
    IN IF r.res # "ok" THEN r ELSE Undirected_remove_second(r.h, o, u, v)

------------------------------------------------------------------------------
\* class Unweighted(Graph).

\* super().add_edge(u, v) passes no weight on.
Unweighted_add_edge(h, o, u, v, w) ==
    LET r == Graph_add_edge(h, o, u, v, <<>>)
    IN IF r.res # "ok" THEN r
       ELSE Ok([r.h EXCEPT !.wdicts[o.weights] = Put(@, <<u, v>>, 1)])

------------------------------------------------------------------------------
\* Method resolution: the method a call on an object of class o.kind runs.

parents(h, o, v) ==
    IF o.kind = "Undirected" THEN Undirected_parents(h, o, v)
    ELSE Graph_parents(h, o, v)

neighbors(h, o, u) ==
    IF o.kind = "Undirected" THEN Undirected_neighbors(h, o, u)
    ELSE Graph_neighbors(h, o, u)

add_edge(h, o, u, v, w) ==
    CASE o.kind = "Undirected" -> Undirected_add_edge(h, o, u, v, w)
      [] o.kind = "Unweighted" -> Unweighted_add_edge(h, o, u, v, w)
      [] OTHER -> Graph_add_edge(h, o, u, v, w)

remove_edge(h, o, u, v) ==
    IF o.kind = "Undirected" THEN Undirected_remove_edge(h, o, u, v)
    ELSE Graph_remove_edge(h, o, u, v)

\* An __eq__ that compares what is stored, as Graph.__eq__ does.
Undirected_eq_stored(h, self, other) ==
    /\ NodeSet(h, self) = NodeSet(h, other)
    /\ \A u \in NodeSet(h, self) :
           /\ AInSet(h, self, u) = AInSet(h, other, u)
           /\ AOutSet(h, self, u) = AOutSet(h, other, u)

\* Undirected.__eq__(self, other)
Undirected_eq(h, self, other) ==
    IF other.kind = "Undirected" /\ NodeSet(h, self) = NodeSet(h, other)
    THEN \A u \in NodeSet(h, self) :
             neighbors(h, self, u).val = neighbors(h, other, u).val
    ELSE FALSE

------------------------------------------------------------------------------
\* Constructors.  Each returns [h, obj]: the heap with the new object's
\* containers, and the new object.

NewObject(g, kind, d) ==
    [kind |-> kind, id |-> g, nodes |-> g, a_in |-> <<g, "a_in">>,
     a_out |-> <<g, "a_out">>, weights |-> g, default_weight |-> d]

\* dict(other._a_in): a new dict at <<g, f>> that holds the sets of the
\* source.
CopyAdjacency_shallow(h, g, f, src) ==
    [h EXCEPT !.dicts[<<g, f>>] = src]

\* {u: set(other._a_in[u]) for u in other._a_in}, for field f of other: a new
\* dict at <<g, f>> and a new set for each of its keys.
CopyAdjacency(h, g, f, src) ==
    [h EXCEPT !.dicts[<<g, f>>] = [u \in DOMAIN src |-> <<g, f, u>>],
              !.adjsets = [a \in AdjAddrs |->
                              IF a[1] = g /\ a[2] = f /\ a[3] \in DOMAIN src
                              THEN h.adjsets[src[a[3]]]
                              ELSE h.adjsets[a]]]

\* Graph.__init__(self, other, default_weight) with a graph for other: the
\* object is truthy, so the copying branch runs.
Graph_init_copy(h, g, kind, other, d) ==
    LET self == NewObject(g, kind, d)
        h1 == [h EXCEPT !.nodesets[g] = NodeSet(h, other)]
        h2 == CopyAdjacency(h1, g, "a_in", AIn(h1, other))
        h3 == CopyAdjacency(h2, g, "a_out", AOut(h2, other))
    IN [h |-> [h3 EXCEPT !.wdicts[g] = [p \in edges(h3, self) |-> d]],
        obj |-> self]

\* Graph.__init__(self, None, default_weight).
Graph_init_empty(h, g, d) ==
    [h |-> [h EXCEPT !.nodesets[g] = {},
                     !.dicts[<<g, "a_in">>] = EmptyDict,
                     !.dicts[<<g, "a_out">>] = EmptyDict,
                     !.wdicts[g] = EmptyDict],
     obj |-> NewObject(g, "Graph", d)]

\* Undirected.__init__ and Unweighted.__init__ pass the graph on; the first
\* leaves default_weight at its default, the second passes 1.
Construct(h, g, kind, other, d) ==
    IF kind = "Graph" THEN Graph_init_copy(h, g, kind, other, d)
    ELSE Graph_init_copy(h, g, kind, other, 1)

\* The caller drops its last reference to object o: its containers are
\* garbage.
Release(h, o) ==
    [nodesets |-> [g \in GraphIds |->
                      IF g = o.nodes THEN {} ELSE h.nodesets[g]],
     adjsets  |-> [a \in AdjAddrs |->
                      IF a[1] = o.id THEN {} ELSE h.adjsets[a]],
     dicts    |-> [d \in DictAddrs |->
                      IF d \in {o.a_in, o.a_out} THEN EmptyDict
                      ELSE h.dicts[d]],
     wdicts   |-> [g \in GraphIds |->
                      IF g = o.weights THEN EmptyDict ELSE h.wdicts[g]]]

------------------------------------------------------------------------------
\* The sets that nodes(), parents() and neighbors() return are objects too.
\* A reference to a set is <<g, "nodes", 0>> for the node set at address g
\* and <<g, f, u>> for the adjacency set at that address.

Ref(g, f, u) == <<g, f, u>>

NoRef == <<>>

SetAt(h, ref) ==
    IF ref[2] = "nodes" THEN h.nodesets[ref[1]] ELSE h.adjsets[ref]

SetPut(h, ref, S) ==
    IF ref[2] = "nodes" THEN [h EXCEPT !.nodesets[ref[1]] = S]
    ELSE [h EXCEPT !.adjsets[ref] = S]

\* A nodes() that hands out the graph's own set.
nodes_returned_view(h, o, a) ==
    [h |-> h, res |-> "ok", ref |-> Ref(o.nodes, "nodes", 0)]

\* Graph.nodes(): set(self._nodes), a new set, here at the free address a.
nodes_returned(h, o, a) ==
    LET ref == Ref(a, "nodes", 0)
    IN [h |-> SetPut(h, ref, NodeSet(h, o)), res |-> "ok", ref |-> ref]

\* parents(v): set(self._a_in[v]), and in class Undirected the union() of
\* such a set with self._a_out[v]: a new set either way.
parents_returned(h, o, v, a) ==
    LET r == parents(h, o, v)
        ref == Ref(a, "a_in", v)
    IN IF r.res # "ok" THEN [h |-> h, res |-> r.res, ref |-> NoRef]
       ELSE [h |-> SetPut(h, ref, r.val), res |-> "ok", ref |-> ref]

\* neighbors(u): set(self._a_out[u]), or its union() with self._a_in[u].
neighbors_returned(h, o, u, a) ==
    LET r == neighbors(h, o, u)
        ref == Ref(a, "a_out", u)
    IN IF r.res # "ok" THEN [h |-> h, res |-> r.res, ref |-> NoRef]
       ELSE [h |-> SetPut(h, ref, r.val), res |-> "ok", ref |-> ref]

------------------------------------------------------------------------------
\* Helpers for Python's lists and for None.

None == <<>>

Reverse(s) == [k \in 1..Len(s) |-> s[Len(s) + 1 - k]]

\* The key functions a caller passes: none, or lambda x: -x.
Keys == {"none", "neg"}

KeyOf(key, x) == IF key = "neg" THEN 0 - x ELSE x

\* list(S) followed by .sort(key=key): ascending in the key.
RECURSIVE sorted(_, _)
sorted(S, key) ==
    IF S = {} THEN <<>>
    ELSE LET m == CHOOSE m \in S :
                      \A x \in S : KeyOf(key, m) <= KeyOf(key, x)
         IN <<m>> \o sorted(S \ {m}, key)

\* d_u + l_uv on floats: math.inf stays math.inf.
Add(d, l) == IF d = inf THEN inf ELSE d + l

------------------------------------------------------------------------------
\* class GraphIterator and its subclasses.  An iterator object is a record:
\* its class, the graph it refers to, its key, its deque _worklist (the
\* right end is the end of the sequence), its HeapDict _worklist (class
\* DijkstraIterator replaces the deque by it), its set _remaining; with it
\* the model keeps the start it was given, the nodes it has returned so far
\* (out) and, for a weighted iterator, the distance returned with each
\* (dist), and how its last call ended: it is running (the constructor or
\* next() returned), next() raised StopIteration or another exception, or
\* the constructor failed.

IteratorObject(cls, g, start, key) ==
    [cls |-> cls, graph |-> g, start |-> start, key |-> key,
     worklist |-> <<>>, heapdict |-> EmptyDict, remaining |-> {},
     out |-> <<>>, dist |-> <<>>, status |-> "none"]

NoIterator == IteratorObject("none", 0, 0, "none")

GraphIterator_init(h, o, cls, start, key) ==
    LET self == IteratorObject(cls, o.id, start, key)
    IN IF start \notin nodes(h, o)
       THEN [self EXCEPT !.status = "NodeNotDefined"]
       ELSE [self EXCEPT !.worklist = <<start>>,
                         !.remaining = nodes(h, o),
                         !.status = "running"]

\* Returns the deque after the pops, and curr or None.
RECURSIVE next_unvisited(_, _)
next_unvisited(worklist, remaining) ==
    IF worklist = <<>> THEN [worklist |-> <<>>, curr |-> None]
    ELSE LET curr == worklist[Len(worklist)]
             rest == SubSeq(worklist, 1, Len(worklist) - 1)
         IN IF curr \in remaining
            THEN [worklist |-> rest, curr |-> <<curr>>]
            ELSE next_unvisited(rest, remaining)

\* _visit_next returns the iterator it leaves behind and u or None.  The
\* graph is not mutated while it is iterated over, so neighbors(u) of a node
\* u of _remaining does not raise.
DepthFirstIterator_visit_next(h, o, self) ==
    LET n == next_unvisited(self.worklist, self.remaining)
        popped == [self EXCEPT !.worklist = n.worklist]
    IN IF ~Truthy(n.curr) THEN [it |-> popped, u |-> None]
       ELSE LET ns == Reverse(sorted(neighbors(h, o, n.curr[1]).val,
                                     self.key))
                Unvisited(v) == v \in self.remaining
            IN [it |-> [popped EXCEPT
                           !.worklist = @ \o SelectSeq(ns, Unvisited)],
                u |-> n.curr]

\* appendleft of each neighbour in turn leaves the first one rightmost.
BreadthFirstIterator_visit_next(h, o, self) ==
    LET n == next_unvisited(self.worklist, self.remaining)
        popped == [self EXCEPT !.worklist = n.worklist]
    IN IF ~Truthy(n.curr) THEN [it |-> popped, u |-> None]
       ELSE LET ns == sorted(neighbors(h, o, n.curr[1]).val, self.key)
                Unvisited(v) == v \in self.remaining
            IN [it |-> [popped EXCEPT
                           !.worklist =
                               Reverse(SelectSeq(ns, Unvisited)) \o @],
                u |-> n.curr]

\* GraphIterator.__next__ on the result r of _visit_next.
GraphIterator_next(r) ==
    IF Truthy(r.u)
    THEN [r.it EXCEPT !.remaining = @ \ {r.u[1]},
                      !.out = Append(@, r.u[1]),
                      !.status = "running"]
    ELSE [r.it EXCEPT !.status = "StopIteration"]

DijkstraIterator_init(h, o, start, key) ==
    LET self == GraphIterator_init(h, o, "Dijkstra", start, key)
    IN IF self.status # "running" THEN self
       ELSE [self EXCEPT
                !.worklist = <<>>,
                !.heapdict = [u \in nodes(h, o) |->
                                 IF u = start THEN 0 ELSE inf]]

\* A popitem() that removes any item, whatever its priority.
popitem_any(worklist) == DOMAIN worklist

\* HeapDict.popitem() removes an item of lowest priority; which one among
\* several of the same priority is left to the heap, so every one of them
\* is a possible outcome.
popitem(worklist) ==
    {u \in DOMAIN worklist :
        \A v \in DOMAIN worklist : worklist[u] <= worklist[v]}

\* The for loop of DijkstraIterator._visit_next over the neighbours vs of u.
\* self._graph.weight(u, v) may raise, which ends the loop.
RECURSIVE relax(_, _, _, _, _, _)
relax(h, o, worklist, u, d_u, vs) ==
    IF vs = <<>> THEN [worklist |-> worklist, res |-> "ok"]
    ELSE IF Head(vs) \notin DOMAIN worklist
    THEN relax(h, o, worklist, u, d_u, Tail(vs))
    ELSE LET v == Head(vs)
             d_v == worklist[v]
             l_uv == weight(h, o, u, v)
         IN IF l_uv.res # "ok"
            THEN [worklist |-> worklist, res |-> l_uv.res]
            ELSE relax(h, o,
                       IF d_v > Add(d_u, l_uv.val)
                       THEN Put(worklist, v, Add(d_u, l_uv.val))
                       ELSE worklist,
                       u, d_u, Tail(vs))

\* _visit_next when popitem() returns u.
DijkstraIterator_visit_next(h, o, self, u) ==
    LET d_u == self.heapdict[u]
        r == relax(h, o, Del(self.heapdict, u), u, d_u,
                   sorted(neighbors(h, o, u).val, self.key))
    IN [it |-> [self EXCEPT !.heapdict = r.worklist], res |-> r.res,
        u |-> <<u>>, weight |-> d_u]

\* _visit_next when the HeapDict is empty: popitem() raises KeyError.
DijkstraIterator_visit_empty(self) ==
    [it |-> self, res |-> "ok", u |-> None, weight |-> inf]

\* WeightedGraphIterator.__next__ on the result r of _visit_next; an
\* exception of _visit_next passes through.
WeightedGraphIterator_next(r) ==
    IF r.res # "ok" THEN [r.it EXCEPT !.status = r.res]
    ELSE IF Truthy(r.u)
    THEN [r.it EXCEPT !.remaining = @ \ {r.u[1]},
                      !.out = Append(@, r.u[1]),
                      !.dist = Append(@, r.weight),
                      !.status = "running"]
    ELSE [r.it EXCEPT !.status = "StopIteration"]

\* next(it): the iterators one call can leave behind.
iter_next(h, o, self) ==
    CASE self.cls = "DFS" ->
             {GraphIterator_next(DepthFirstIterator_visit_next(h, o, self))}
      [] self.cls = "BFS" ->
             {GraphIterator_next(
                  BreadthFirstIterator_visit_next(h, o, self))}
      [] OTHER ->
             IF DOMAIN self.heapdict = {}
             THEN {WeightedGraphIterator_next(
                       DijkstraIterator_visit_empty(self))}
             ELSE {WeightedGraphIterator_next(
                       DijkstraIterator_visit_next(h, o, self, u)) :
                   u \in popitem(self.heapdict)}

------------------------------------------------------------------------------
\* algorithms.py: shortest_path and distance.  Each returns the set of
\* outcomes [res, val] the call can have: res is "ok" with the value
\* returned, or the exception raised.

\* The for loop of shortest_path from iterator i on, path being the list so
\* far.
RECURSIVE shortest_path_loop(_, _, _, _, _)
shortest_path_loop(h, o, i, t, path) ==
    LET After(j) ==
            IF j.status = "StopIteration"
            THEN {[res |-> "Unreachable", val |-> <<>>]}
            ELSE IF j.status # "running"
            THEN {[res |-> j.status, val |-> <<>>]}
            ELSE LET u == j.out[Len(j.out)]
                 IN IF u = t THEN {[res |-> "ok", val |-> Append(path, u)]}
                    ELSE shortest_path_loop(h, o, j, t, Append(path, u))
    IN UNION {After(j) : j \in iter_next(h, o, i)}

shortest_path(h, o, s, t) ==
    LET i == DijkstraIterator_init(h, o, s, "none")
    IN IF i.status # "running" THEN {[res |-> i.status, val |-> <<>>]}
       ELSE shortest_path_loop(h, o, i, t, <<>>)

\* The for loop of distance from iterator i on.
RECURSIVE distance_loop(_, _, _, _)
distance_loop(h, o, i, t) ==
    LET After(j) ==
            IF j.status = "StopIteration"
            THEN {[res |-> "Unreachable", val |-> inf]}
            ELSE IF j.status # "running"
            THEN {[res |-> j.status, val |-> inf]}
            ELSE LET u == j.out[Len(j.out)]
                     d_u == j.dist[Len(j.dist)]
                 IN IF u = t THEN {[res |-> "ok", val |-> d_u]}
                    ELSE distance_loop(h, o, j, t)
    IN UNION {After(j) : j \in iter_next(h, o, i)}

distance(h, o, s, t) ==
    LET i == DijkstraIterator_init(h, o, s, "none")
    IN IF i.status # "running" THEN {[res |-> i.status, val |-> inf]}
       ELSE distance_loop(h, o, i, t)

\* list(iterator): next() until it raises; the iterators this can leave.
RECURSIVE list(_, _, _)
list(h, o, i) ==
    UNION {IF j.status = "running" THEN list(h, o, j) ELSE {j} :
           j \in iter_next(h, o, i)}

\* What a list built from iterator i ends as: the exception that ended it,
\* if it was not StopIteration.
Ended(i) == IF i.status = "StopIteration" THEN "ok" ELSE i.status

post_order(h, o, v) ==
    IF v \notin nodes(h, o) THEN {[res |-> "NodeNotDefined", val |-> <<>>]}
    ELSE {[res |-> Ended(i), val |-> Reverse(i.out)] :
          i \in list(h, o, GraphIterator_init(h, o, "DFS", v, "none"))}

\* pop_min(ready): the index of the least (ready[i], i); the nodes of ready
\* are distinct, so it is the index of the least node.  With a key, min()
\* applies the key to the pairs (ready[i], i), and lambda x: -x raises
\* TypeError on a pair.
pop_min(ready, key) ==
    IF key # "none" THEN [res |-> "TypeError", idx |-> 0]
    ELSE [res |-> "ok",
          idx |-> CHOOSE i \in DOMAIN ready :
                      \A j \in DOMAIN ready : ready[i] <= ready[j]]

\* The for loop of topological_sort over the neighbours vs of u;
\* in_degrees[v] raises KeyError for a v that is not among its keys.
RECURSIVE decrement(_, _, _)
decrement(in_degrees, ready, vs) ==
    IF vs = <<>>
    THEN [res |-> "ok", in_degrees |-> in_degrees, ready |-> ready]
    ELSE LET v == Head(vs)
         IN IF v \notin DOMAIN in_degrees
            THEN [res |-> "KeyError", in_degrees |-> in_degrees,
                  ready |-> ready]
            ELSE decrement(Put(in_degrees, v, in_degrees[v] - 1),
                           IF in_degrees[v] - 1 = 0 THEN Append(ready, v)
                           ELSE ready,
                           Tail(vs))

\* The while loop of topological_sort.  The order in which a set is iterated
\* over decides only the order of ready, which pop_min does not depend on:
\* the model iterates in ascending order.
RECURSIVE topological_loop(_, _, _, _, _, _)
topological_loop(h, o, key, in_degrees, ready, order) ==
    IF ready = <<>> THEN [res |-> "ok", val |-> order]
    ELSE LET m == pop_min(ready, key)
             u == ready[m.idx]
             rest == SubSeq(ready, 1, m.idx - 1)
                         \o SubSeq(ready, m.idx + 1, Len(ready))
             r == decrement(in_degrees, rest,
                            sorted(neighbors(h, o, u).val, "none"))
         IN IF m.res # "ok" THEN [res |-> m.res, val |-> order]
            ELSE IF r.res # "ok" THEN [res |-> r.res, val |-> Append(order, u)]
            ELSE topological_loop(h, o, key, r.in_degrees, r.ready,
                                  Append(order, u))

topological_sort(h, o, key) ==
    LET in_degrees == [v \in nodes(h, o) |->
                          Cardinality(parents(h, o, v).val)]
        IsReady(v) == in_degrees[v] = 0
    IN topological_loop(h, o, key, in_degrees,
                        SelectSeq(sorted(nodes(h, o), "none"), IsReady),
                        <<>>)

\* The while loop of components: nodes is the set at ref.  next(iter(nodes))
\* is whichever node the set yields first, so each is a possible choice.  A
\* round that discovers no node of the set leaves the set as it was, the
\* next round is the same round again, and the call never returns.
RECURSIVE components_loop(_, _, _, _)
components_loop(h, o, ref, comps) ==
    IF SetAt(h, ref) = {}
    THEN {[h |-> h, res |-> "ok", val |-> comps]}
    ELSE UNION {
        UNION {
            LET discovered == Range(i.out)
                left == SetAt(h, ref) \ discovered
            IN IF Ended(i) # "ok"
               THEN {[h |-> SetPut(h, ref, {}), res |-> Ended(i),
                      val |-> comps]}
               ELSE IF left = SetAt(h, ref)
               THEN {[h |-> SetPut(h, ref, {}), res |-> "NoReturn",
                      val |-> comps]}
               ELSE components_loop(SetPut(h, ref, left), o, ref,
                                    Append(comps, discovered)) :
            i \in LET c == GraphIterator_init(h, o, "DFS", x, "none")
                  IN IF c.status = "running" THEN list(h, o, c) ELSE {c}} :
        x \in SetAt(h, ref)}

\* components(graph), a the free address for the set nodes() returns.
components(h, o, a) ==
    LET n == nodes_returned(h, o, a)
    IN components_loop(n.h, o, n.ref, <<>>)

\* The record of a call of a function of algorithms.py, or of a query that
\* returns a set: its arguments, its outcome, and what it returned: a list
\* of nodes (path), a list of sets (comps), a number (d), or for a query the
\* reference to the set (ref) with, in comps, what the set held on return.
NoAlgorithm ==
    [op |-> "none", s |-> 0, t |-> 0, key |-> "none", res |-> "ok",
     path |-> <<>>, comps |-> <<>>, d |-> 0, ref |-> NoRef]

------------------------------------------------------------------------------
\* The state machine: a caller holding graph objects and calling their
\* public methods.

Live(g) == objs[g].kind # "none"

TwoLive == Live(1) /\ Live(2)

CanCall(g) == Live(g) /\ (TwoLive => calls < MaxAfterCopy)

NoWeight == <<>>
NoBatch == <<>>

Call(op, g, u, v, w, batch, res) ==
    [op |-> op, g |-> g, u |-> u, v |-> v, w |-> w, batch |-> batch,
     res |-> res]

\* The call returned or raised: r is what it left behind.
Return(op, g, u, v, w, batch, r) ==
    /\ heap' = r.h
    /\ last' = Call(op, g, u, v, w, batch, r.res)
    /\ calls' = IF TwoLive THEN calls + 1 ELSE calls
    /\ UNCHANGED <<objs, it, alg>>

Batches == UNION {[1..n -> Nodes] : n \in 0..MaxBatch}

\* g = Graph(default_weight=d)
Init ==
    \E d \in DefaultWeights :
        LET c == Graph_init_empty(EmptyHeap, 1, d)
        IN /\ objs = [g \in GraphIds |-> IF g = 1 THEN c.obj ELSE NoObject(g)]
           /\ heap = c.h
           /\ last = Call("init", 1, 0, 0, NoWeight, NoBatch, "ok")
           /\ calls = 0
           /\ it = NoIterator
           /\ alg = NoAlgorithm

AddNode ==
    \E g \in GraphIds, n \in Nodes :
        /\ CanCall(g)
        /\ Return("add_node", g, n, 0, NoWeight, NoBatch,
                  add_node(heap, objs[g], n))

AddNodes ==
    \E g \in GraphIds, batch \in Batches :
        /\ CanCall(g)
        /\ Return("add_nodes", g, 0, 0, NoWeight, batch,
                  add_nodes(heap, objs[g], batch))

AddEdge ==
    \E g \in GraphIds, u \in Nodes, v \in Nodes, w \in WeightArgs :
        /\ CanCall(g)
        /\ Return("add_edge", g, u, v, w, NoBatch,
                  add_edge(heap, objs[g], u, v, w))

\* add_edge(u, v), no weight supplied
AddEdgeDefault ==
    \E g \in GraphIds, u \in Nodes, v \in Nodes :
        /\ CanCall(g)
        /\ Return("add_edge", g, u, v, NoWeight, NoBatch,
                  add_edge(heap, objs[g], u, v, NoWeight))

RemoveNode ==
    \E g \in GraphIds, u \in Nodes :
        /\ CanCall(g)
        /\ Return("remove_node", g, u, 0, NoWeight, NoBatch,
                  remove_node(heap, objs[g], u))

RemoveEdge ==
    \E g \in GraphIds, u \in Nodes, v \in Nodes :
        /\ CanCall(g)
        /\ Return("remove_edge", g, u, v, NoWeight, NoBatch,
                  remove_edge(heap, objs[g], u, v))

\* g = Undirected(g) or g = Unweighted(g): the caller wraps its graph and
\* keeps only the new object.
Wrap ==
    \E kind \in Kinds \ {"Graph"} :
        /\ Live(1) /\ ~Live(2)
        /\ LET c == Construct(heap, 2, kind, objs[1], 1)
           IN /\ heap' = Release(c.h, objs[1])
              /\ objs' = [objs EXCEPT ![1] = NoObject(1), ![2] = c.obj]
              /\ last' = Call("init", 2, 0, 0, NoWeight, NoBatch, "ok")
              /\ calls' = 0
              /\ UNCHANGED <<it, alg>>

\* g2 = Graph(g1, default_weight=d): the caller keeps both graphs.
Copy ==
    \E d \in DefaultWeights :
        /\ Live(1) /\ ~Live(2)
        /\ LET c == Construct(heap, 2, "Graph", objs[1], d)
           IN /\ heap' = c.h
              /\ objs' = [objs EXCEPT ![2] = c.obj]
              /\ last' = Call("init", 2, 0, 0, NoWeight, NoBatch, "ok")
              /\ calls' = 0
              /\ UNCHANGED <<it, alg>>

\* One graph at a time, of any class, under every public mutation.
Next ==
    \/ AddNode
    \/ AddNodes
    \/ AddEdge
    \/ RemoveNode
    \/ RemoveEdge
    \/ Wrap

Spec == Init /\ [][Next]_vars

\* A graph and its copy under the structural mutations.
NextCopy ==
    \/ AddNode
    \/ AddEdgeDefault
    \/ RemoveNode
    \/ RemoveEdge
    \/ Copy

SpecCopy == Init /\ [][NextCopy]_vars

------------------------------------------------------------------------------
\* The second state machine: a caller that has built a graph iterates over
\* it, or hands it to an algorithm, and does not mutate it meanwhile.

\* The weights given to add_edge while building.
IterWeightArgs == {<<>>, <<3>>}

\* How the graph was built: g = Graph(); u = Undirected(Graph()), each
\* followed by add_nodes and add_edge calls; or u = Undirected(g) for a g
\* built in the first way.
BuildModes == {"Graph", "Undirected", "UndirectedOf"}

NodeSets == {N \in SUBSET IterNodes : Cardinality(N) <= MaxGraphNodes}

EdgeSets(N) == {E \in SUBSET (N \X N) : Cardinality(E) <= MaxEdges}

\* The pairs of E in lexicographic order.
RECURSIVE InOrder(_)
InOrder(E) ==
    IF E = {} THEN <<>>
    ELSE LET p == CHOOSE p \in E :
                      \A q \in E : \/ p[1] < q[1]
                                   \/ p[1] = q[1] /\ p[2] <= q[2]
         IN <<p>> \o InOrder(E \ {p})

\* add_edge(u, v, wf[u, v]) for each (u, v) of es in turn; a call that
\* raises is passed over.
RECURSIVE add_edges(_, _, _, _)
add_edges(h, o, es, wf) ==
    IF es = <<>> THEN h
    ELSE add_edges(add_edge(h, o, es[1][1], es[1][2], wf[es[1]]).h, o,
                   Tail(es), wf)

\* The caller's graph, with nodes N and an add_edge call for each pair of E.
Build(mode, N, E, wf) ==
    LET g == Graph_init_empty(EmptyHeap, 1, 1)
        u == Construct(g.h, 2, "Undirected", g.obj, 1)
        first == IF mode = "Undirected"
                 THEN [h |-> Release(u.h, g.obj), obj |-> u.obj]
                 ELSE g
        h1 == add_nodes(first.h, first.obj, sorted(N, "none")).h
        h2 == add_edges(h1, first.obj, InOrder(E), wf)
        w == Construct(h2, 2, "Undirected", first.obj, 1)
        built == IF mode = "UndirectedOf"
                 THEN [h |-> Release(w.h, first.obj), obj |-> w.obj]
                 ELSE [h |-> h2, obj |-> first.obj]
    IN [h |-> built.h,
        objs |-> [i \in GraphIds |->
                     IF i = built.obj.id THEN built.obj ELSE NoObject(i)]]

InitIter ==
    \E mode \in BuildModes, N \in NodeSets :
        \E E \in EdgeSets(N) :
            \E wf \in [E -> IterWeightArgs] :
                LET b == Build(mode, N, E, wf)
                IN /\ objs = b.objs
                   /\ heap = b.h
                   /\ last = Call("init", 1, 0, 0, NoWeight, NoBatch, "ok")
                   /\ calls = 0
                   /\ it = NoIterator
                   /\ alg = NoAlgorithm

Idle == it.cls = "none" /\ alg.op = "none"

\* it = DepthFirstIterator(g, start, key)
NewDepthFirst ==
    \E g \in GraphIds, start \in IterNodes, key \in Keys :
        /\ Live(g) /\ Idle
        /\ it' = GraphIterator_init(heap, objs[g], "DFS", start, key)
        /\ UNCHANGED <<objs, heap, last, calls, alg>>

\* it = BreadthFirstIterator(g, start, key)
NewBreadthFirst ==
    \E g \in GraphIds, start \in IterNodes, key \in Keys :
        /\ Live(g) /\ Idle
        /\ it' = GraphIterator_init(heap, objs[g], "BFS", start, key)
        /\ UNCHANGED <<objs, heap, last, calls, alg>>

\* it = DijkstraIterator(g, start, key)
NewDijkstra ==
    \E g \in GraphIds, start \in IterNodes, key \in Keys :
        /\ Live(g) /\ Idle
        /\ it' = DijkstraIterator_init(heap, objs[g], start, key)
        /\ UNCHANGED <<objs, heap, last, calls, alg>>

\* next(it): as a for loop or list(it) calls it, and again after it has
\* raised StopIteration.
Advance ==
    /\ it.status \in {"running", "StopIteration"}
    /\ it' \in iter_next(heap, objs[it.graph], it)
    /\ UNCHANGED <<objs, heap, last, calls, alg>>

\* shortest_path(g, s, t)
ShortestPath ==
    \E g \in GraphIds, s \in IterNodes, t \in IterNodes :
        /\ Live(g) /\ Idle
        /\ \E r \in shortest_path(heap, objs[g], s, t) :
               alg' = [NoAlgorithm EXCEPT !.op = "shortest_path",
                                          !.s = s, !.t = t,
                                          !.res = r.res, !.path = r.val]
        /\ UNCHANGED <<objs, heap, last, calls, it>>

\* distance(g, s, t)
Distance ==
    \E g \in GraphIds, s \in IterNodes, t \in IterNodes :
        /\ Live(g) /\ Idle
        /\ \E r \in distance(heap, objs[g], s, t) :
               alg' = [NoAlgorithm EXCEPT !.op = "distance",
                                          !.s = s, !.t = t,
                                          !.res = r.res, !.d = r.val]
        /\ UNCHANGED <<objs, heap, last, calls, it>>

NextIter ==
    \/ NewDepthFirst
    \/ NewBreadthFirst
    \/ NewDijkstra
    \/ Advance
    \/ ShortestPath
    \/ Distance

SpecIter == InitIter /\ [][NextIter]_vars

------------------------------------------------------------------------------
\* The third state machine: a caller that has built a graph, and may have
\* removed one of its nodes, calls one of the other functions of
\* algorithms.py on it.

\* The node removed after building, or None.
Removals(N) == {None} \cup {<<n>> : n \in N}

InitAlg ==
    \E mode \in BuildModes, N \in NodeSets :
        \E E \in EdgeSets(N), rm \in Removals(N) :
            LET b == Build(mode, N, E, [p \in E |-> NoWeight])
                o == b.objs[CHOOSE g \in GraphIds : b.objs[g].kind # "none"]
            IN /\ objs = b.objs
               /\ heap = IF rm = None THEN b.h
                         ELSE remove_node(b.h, o, rm[1]).h
               /\ last = Call("init", 1, 0, 0, NoWeight, NoBatch, "ok")
               /\ calls = 0
               /\ it = NoIterator
               /\ alg = NoAlgorithm

\* post_order(g, v)
PostOrder ==
    \E g \in GraphIds, v \in IterNodes :
        /\ Live(g) /\ Idle
        /\ \E r \in post_order(heap, objs[g], v) :
               alg' = [NoAlgorithm EXCEPT !.op = "post_order", !.s = v,
                                          !.res = r.res, !.path = r.val]
        /\ UNCHANGED <<objs, heap, last, calls, it>>

\* topological_sort(g, key)
TopologicalSort ==
    \E g \in GraphIds, key \in Keys :
        /\ Live(g) /\ Idle
        /\ LET r == topological_sort(heap, objs[g], key)
           IN alg' = [NoAlgorithm EXCEPT !.op = "topological_sort",
                                         !.key = key,
                                         !.res = r.res, !.path = r.val]
        /\ UNCHANGED <<objs, heap, last, calls, it>>

\* An address no live object uses.
Free == CHOOSE a \in GraphIds : ~Live(a)

\* components(g)
Components ==
    \E g \in GraphIds :
        /\ Live(g) /\ Idle
        /\ objs[g].kind = "Undirected"
        /\ \E r \in components(heap, objs[g], Free) :
               /\ heap' = r.h
               /\ alg' = [NoAlgorithm EXCEPT !.op = "components",
                                             !.res = r.res, !.comps = r.val]
        /\ UNCHANGED <<objs, last, calls, it>>

NextAlg ==
    \/ PostOrder
    \/ TopologicalSort
    \/ Components

SpecAlg == InitAlg /\ [][NextAlg]_vars

------------------------------------------------------------------------------
\* The state machine of equality: a caller wraps its graph, wraps the
\* wrapper again, keeps both wrappers, makes up to MaxAfterCopy calls on the
\* two and compares them.

\* u2 = Undirected(u): the caller keeps both.
Rewrap ==
    /\ Live(2) /\ ~Live(1)
    /\ objs[2].kind = "Undirected"
    /\ LET c == Construct(heap, 1, "Undirected", objs[2], 1)
       IN /\ heap' = c.h
          /\ objs' = [objs EXCEPT ![1] = c.obj]
          /\ last' = Call("init", 1, 0, 0, NoWeight, NoBatch, "ok")
          /\ calls' = 0
          /\ UNCHANGED <<it, alg>>

\* objs[g] == objs[other], both of class Undirected
Equal ==
    \E g \in GraphIds, other \in GraphIds :
        /\ g # other /\ TwoLive
        /\ objs[g].kind = "Undirected"
        /\ objs[other].kind = "Undirected"
        /\ alg' = [NoAlgorithm EXCEPT
                      !.op = "eq", !.s = g, !.t = other,
                      !.res = IF Undirected_eq(heap, objs[g], objs[other])
                              THEN "True" ELSE "False"]
        /\ last' = Call("eq", g, 0, 0, NoWeight, NoBatch, "ok")
        /\ UNCHANGED <<objs, heap, calls, it>>

NextEq ==
    \/ AddNode
    \/ AddEdgeDefault
    \/ RemoveNode
    \/ RemoveEdge
    \/ Wrap
    \/ Rewrap
    \/ Equal

SpecEq == Init /\ [][NextEq]_vars

------------------------------------------------------------------------------
\* The fourth state machine: a caller that keeps the set one query returned
\* while it goes on mutating the graph, and the set.

\* g = Graph() or g = Undirected(Graph())
InitSnap ==
    \E mode \in {"Graph", "Undirected"} :
        LET b == Build(mode, {}, {}, [p \in {} |-> NoWeight])
        IN /\ objs = b.objs
           /\ heap = b.h
           /\ last = Call("init", 1, 0, 0, NoWeight, NoBatch, "ok")
           /\ calls = 0
           /\ it = NoIterator
           /\ alg = NoAlgorithm

\* The query op(u) of graph g returned r: the caller keeps the set.
Returns(op, g, u, r) ==
    /\ heap' = r.h
    /\ alg' = [NoAlgorithm EXCEPT
                  !.op = op, !.s = u, !.res = r.res, !.ref = r.ref,
                  !.comps = IF r.res = "ok" THEN <<SetAt(r.h, r.ref)>>
                            ELSE <<>>]
    /\ last' = Call(op, g, u, 0, NoWeight, NoBatch, r.res)
    /\ UNCHANGED <<objs, calls, it>>

\* s = g.nodes()
GetNodes ==
    \E g \in GraphIds :
        /\ Live(g) /\ Idle
        /\ Returns("nodes", g, 0, nodes_returned(heap, objs[g], Free))

\* s = g.parents(v)
GetParents ==
    \E g \in GraphIds, v \in Nodes :
        /\ Live(g) /\ Idle
        /\ Returns("parents", g, v, parents_returned(heap, objs[g], v, Free))

\* s = g.neighbors(u)
GetNeighbors ==
    \E g \in GraphIds, u \in Nodes :
        /\ Live(g) /\ Idle
        /\ Returns("neighbors", g, u,
                   neighbors_returned(heap, objs[g], u, Free))

\* s.add(x)
SetAdd ==
    \E x \in Nodes :
        /\ alg.ref # NoRef
        /\ heap' = SetPut(heap, alg.ref, SetAt(heap, alg.ref) \cup {x})
        /\ last' = Call("set_add", 0, x, 0, NoWeight, NoBatch, "ok")
        /\ UNCHANGED <<objs, calls, it, alg>>

\* s.discard(x)
SetDiscard ==
    \E x \in Nodes :
        /\ alg.ref # NoRef
        /\ heap' = SetPut(heap, alg.ref, SetAt(heap, alg.ref) \ {x})
        /\ last' = Call("set_discard", 0, x, 0, NoWeight, NoBatch, "ok")
        /\ UNCHANGED <<objs, calls, it, alg>>

NextSnap ==
    \/ AddNode
    \/ AddEdgeDefault
    \/ RemoveNode
    \/ RemoveEdge
    \/ GetNodes
    \/ GetParents
    \/ GetNeighbors
    \/ SetAdd
    \/ SetDiscard

SpecSnap == InitSnap /\ [][NextSnap]_vars

------------------------------------------------------------------------------
\* The state machine of the copy constructors: a caller that has built a
\* graph with weights of its own, and may have removed one of its nodes,
\* constructs a graph of any class from it and keeps both.

InitCtor ==
    \E mode \in BuildModes, N \in NodeSets :
        \E E \in EdgeSets(N), rm \in Removals(N) :
            \E wf \in [E -> IterWeightArgs] :
                LET b == Build(mode, N, E, wf)
                    o == b.objs[CHOOSE g \in GraphIds :
                                    b.objs[g].kind # "none"]
                IN /\ objs = b.objs
                   /\ heap = IF rm = None THEN b.h
                             ELSE remove_node(b.h, o, rm[1]).h
                   /\ last = Call("init", 1, 0, 0, NoWeight, NoBatch, "ok")
                   /\ calls = 0
                   /\ it = NoIterator
                   /\ alg = NoAlgorithm

\* g2 = Graph(g1, default_weight=d), g2 = Undirected(g1) or
\* g2 = Unweighted(g1): the caller keeps both graphs.
CopyAs ==
    \E src \in GraphIds, kind \in Kinds, d \in DefaultWeights :
        /\ Live(src) /\ ~TwoLive
        /\ LET dst == CHOOSE g \in GraphIds : g # src
               c == Construct(heap, dst, kind, objs[src], d)
           IN /\ heap' = c.h
              /\ objs' = [objs EXCEPT ![dst] = c.obj]
              /\ last' = Call("init", dst, 0, 0, NoWeight, NoBatch, "ok")
              /\ calls' = 0
              /\ UNCHANGED <<it, alg>>

NextCtor == CopyAs

SpecCtor == InitCtor /\ [][NextCtor]_vars

------------------------------------------------------------------------------
\* Vocabulary of the properties.

\* The object the last call was made on, and the call's arguments.
Receiver == objs[last.g]

PreconditionErrors ==
    {"NodeNotDefined", "NodeAlreadyDefined", "EdgeAlreadyDefined",
     "EdgeNotDefined"}

\* v is in the out-adjacency of u; u is in the in-adjacency of v.
OutAdjacent(h, o, u, v) == u \in DOMAIN AOut(h, o) /\ v \in AOutSet(h, o, u)
InAdjacent(h, o, v, u) == v \in DOMAIN AIn(h, o) /\ u \in AInSet(h, o, v)

Returned(op) == last.op = op /\ last.res = "ok"

\* The graph of the caller that iterates: the one live object.
TheGraph == objs[CHOOSE g \in GraphIds : Live(g)]

\* The nodes that a path of neighbors() steps leads to from the nodes S.
RECURSIVE ReachableFrom(_, _, _)
ReachableFrom(h, o, S) ==
    LET T == S \cup {v \in nodes(h, o) :
                        \E u \in S : v \in neighbors(h, o, u).val}
    IN IF T = S THEN S ELSE ReachableFrom(h, o, T)

Reachable(h, o, s) == ReachableFrom(h, o, {s})

NonNegative(h, o) == \A p \in edges(h, o) : WeightDict(h, o)[p] >= 0

\* The weights under which a step from u to v can be taken: that of (u, v),
\* and in an undirected graph also that of (v, u).
StepWeights(h, o, u, v) ==
    {WeightDict(h, o)[p] :
        p \in edges(h, o) \cap
                 ({<<u, v>>} \cup IF o.kind = "Undirected"
                                  THEN {<<v, u>>} ELSE {})}

Min(S) == CHOOSE m \in S : \A x \in S : m <= x

\* Bellman-Ford: d after k more rounds of relaxing every step.
RECURSIVE Relaxed(_, _, _, _)
Relaxed(h, o, d, k) ==
    IF k = 0 THEN d
    ELSE Relaxed(h, o,
                 [v \in nodes(h, o) |->
                     Min({d[v]} \cup
                         UNION {{Add(d[u], w) :
                                    w \in StepWeights(h, o, u, v)} :
                                u \in nodes(h, o)})],
                 k - 1)

\* The length of a shortest path from s to each node, inf where there is
\* none (weights non-negative).
ShortestLength(h, o, s) ==
    Relaxed(h, o, [v \in nodes(h, o) |-> IF v = s THEN 0 ELSE inf],
            Cardinality(nodes(h, o)))

Distinct(seq) ==
    \A j \in DOMAIN seq, k \in DOMAIN seq : j # k => seq[j] # seq[k]

------------------------------------------------------------------------------
\* C1: in every state a sequence of public calls reaches, for all u and v,
\* v is in the out-adjacency of u if and only if u is in the in-adjacency
\* of v.  (remove_node breaks it: it drops u's own two sets and leaves u in
\* the sets of its neighbours and parents.)
C1_AdjacencyInvariant ==
    \A g \in GraphIds : Live(g) =>
        \A u \in Nodes, v \in Nodes :
            OutAdjacent(heap, objs[g], u, v) <=> InAdjacent(heap, objs[g], v, u)

\* C2: in every reachable state the weight dict has an entry for (u, v) if
\* and only if (u, v) is an edge.  (remove_edge and remove_node never touch
\* the weight dict.)
C2_WeightIffEdge ==
    \A g \in GraphIds : Live(g) =>
        DOMAIN WeightDict(heap, objs[g]) = edges(heap, objs[g])

\* C3: both endpoints of every pair of edges() are nodes, and right after a
\* successful remove_node(u) no pair of edges() has u in it and u is in no
\* node's neighbors() or parents().
C3_RemoveNodeCascades ==
    \A g \in GraphIds : Live(g) =>
        LET o == objs[g]
        IN /\ \A p \in edges(heap, o) :
                  p[1] \in nodes(heap, o) /\ p[2] \in nodes(heap, o)
           /\ (last.g = g /\ Returned("remove_node")) =>
                  /\ \A p \in edges(heap, o) : last.u # p[1] /\ last.u # p[2]
                  /\ \A w \in nodes(heap, o) :
                         /\ last.u \notin neighbors(heap, o, w).val
                         /\ last.u \notin parents(heap, o, w).val

\* C4: right after a successful add_edge(u, v), v is in neighbors(u) and u
\* is in parents(v); right after a successful remove_edge(u, v), v is not in
\* neighbors(u) and u is not in parents(v).
C4_EdgeVisible ==
    /\ Returned("add_edge") =>
           /\ last.v \in neighbors(heap, Receiver, last.u).val
           /\ last.u \in parents(heap, Receiver, last.v).val
    /\ Returned("remove_edge") =>
           /\ last.v \notin neighbors(heap, Receiver, last.u).val
           /\ last.u \notin parents(heap, Receiver, last.v).val

\* C5: a successful remove_edge(u, v) on a directed graph takes exactly
\* (u, v) out of edges(): a reverse edge (v, u) stays, and nodes() does not
\* change.
C5_RemoveEdgeExact ==
    [][(last'.op = "remove_edge" /\ last'.res = "ok"
            /\ objs[last'.g].kind # "Undirected") =>
        LET o == objs[last'.g]
            u == last'.u
            v == last'.v
        IN /\ <<u, v>> \in edges(heap, o)
           /\ edges(heap', o) = edges(heap, o) \ {<<u, v>>}
           /\ (u # v /\ <<v, u>> \in edges(heap, o)) =>
                  <<v, u>> \in edges(heap', o)
           /\ nodes(heap', o) = nodes(heap, o)]_vars

\* A directed graph had both (u, v) and (v, u), and remove_edge(u, v)
\* returned.
C5_Witness ==
    /\ Returned("remove_edge")
    /\ Receiver.kind = "Graph"
    /\ last.u # last.v
    /\ <<last.v, last.u>> \in edges(heap, Receiver)

\* C6: add_nodes with a value that is already a node fails and leaves the
\* graph as it was; add_nodes with no such value makes every value of the
\* batch a node.
C6_AddNodesAtomic ==
    [][last'.op = "add_nodes" =>
        LET o == objs[last'.g]
            batch == Range(last'.batch)
        IN IF batch \cap nodes(heap, o) # {}
           THEN last'.res # "ok" /\ heap' = heap
           ELSE batch \subseteq nodes(heap', o)]_vars

\* C7: a call that fails with a precondition error has mutated nothing.
C7_FailsBeforeMutation ==
    [][last'.res \in PreconditionErrors => heap' = heap]_vars

\* C8: after a successful add_edge(u, v, w) on a weighted graph, weight(u, v)
\* is w; after add_edge(u, v) it is the graph's default weight.
C8_WeightStored ==
    (Returned("add_edge") /\ Receiver.kind # "Unweighted") =>
        LET r == weight(heap, Receiver, last.u, last.v)
        IN /\ r.res = "ok"
           /\ r.val = IF last.w = NoWeight THEN Receiver.default_weight
                      ELSE last.w[1]

\* C9: g2 = Graph(g1) starts with the nodes() and edges() of g1, and from
\* then on a call on either graph leaves nodes() and edges() of the other as
\* they were.
C9_CopyIndependent ==
    [][/\ (last'.op = "init" /\ last'.g = 2) =>
              /\ nodes(heap', objs'[2]) = nodes(heap', objs'[1])
              /\ edges(heap', objs'[2]) = edges(heap', objs'[1])
       /\ (TwoLive /\ last'.op # "init") =>
              LET other == objs[3 - last'.g]
              IN /\ nodes(heap', other) = nodes(heap, other)
                 /\ edges(heap', other) = edges(heap, other)]_vars

\* A graph with an edge was copied, and a call on one of the two has changed
\* its edges.
C9_Witness ==
    /\ TwoLive
    /\ last.op \in {"add_node", "add_edge", "remove_node", "remove_edge"}
    /\ last.res = "ok"
    /\ edges(heap, objs[1]) # {}
    /\ edges(heap, objs[1]) # edges(heap, objs[2])

\* C10: Undirected.remove_edge(u, v) on defined nodes fails with
\* EdgeNotDefined exactly when neither (u, v) nor (v, u) is stored, and
\* succeeds when at least one of them is.
C10_UndirectedRemoveEdge ==
    [][(last'.op = "remove_edge" /\ objs[last'.g].kind = "Undirected"
            /\ last'.u \in nodes(heap, objs[last'.g])
            /\ last'.v \in nodes(heap, objs[last'.g])) =>
        LET o == objs[last'.g]
            stored == \/ <<last'.u, last'.v>> \in edges(heap, o)
                      \/ <<last'.v, last'.u>> \in edges(heap, o)
        IN /\ last'.res = "EdgeNotDefined" <=> ~stored
           /\ stored => last'.res = "ok"]_vars

\* C11: when (u, v) or (v, u) is in edges() of an Undirected graph,
\* remove_edge(u, v) leaves edges() as it was minus (u, v) and (v, u), and
\* afterwards v is not in neighbors(u) and u is not in neighbors(v).
C11_UndirectedRemoveBoth ==
    [][(last'.op = "remove_edge" /\ objs[last'.g].kind = "Undirected"
            /\ (\/ <<last'.u, last'.v>> \in edges(heap, objs[last'.g])
                \/ <<last'.v, last'.u>> \in edges(heap, objs[last'.g]))) =>
        LET o == objs[last'.g]
            u == last'.u
            v == last'.v
            nu == neighbors(heap', o, u)
            nv == neighbors(heap', o, v)
        IN /\ edges(heap', o) = edges(heap, o) \ {<<u, v>>, <<v, u>>}
           /\ ~(nu.res = "ok" /\ v \in nu.val)
           /\ ~(nv.res = "ok" /\ u \in nv.val)]_vars

\* C12: Undirected.add_edge(u, v) fails with EdgeAlreadyDefined and leaves
\* the graph as it was whenever (u, v) or (v, u) is in edges().
C12_UndirectedAddEdgeOnce ==
    [][(last'.op = "add_edge" /\ objs[last'.g].kind = "Undirected"
            /\ (\/ <<last'.u, last'.v>> \in edges(heap, objs[last'.g])
                \/ <<last'.v, last'.u>> \in edges(heap, objs[last'.g]))) =>
        /\ last'.res = "EdgeAlreadyDefined"
        /\ heap' = heap]_vars

\* C13: in every reachable state of an Undirected graph, for every node v,
\* parents(v) and neighbors(v) are both the union of v's in- and
\* out-adjacency, and for all nodes u and v, v is in neighbors(u) if and
\* only if u is in neighbors(v).
C13_UndirectedSymmetric ==
    \A g \in GraphIds : (Live(g) /\ objs[g].kind = "Undirected") =>
        LET o == objs[g]
        IN /\ \A v \in nodes(heap, o) :
                  /\ parents(heap, o, v).val = neighbors(heap, o, v).val
                  /\ neighbors(heap, o, v).val
                         = AInSet(heap, o, v) \cup AOutSet(heap, o, v)
           /\ \A u \in nodes(heap, o), v \in nodes(heap, o) :
                  v \in neighbors(heap, o, u).val
                      <=> u \in neighbors(heap, o, v).val

\* C15: in every reachable state of an Unweighted graph, weight(u, v)
\* returns 1 for every pair (u, v) of edges().
C15_UnweightedOne ==
    \A g \in GraphIds : (Live(g) /\ objs[g].kind = "Unweighted") =>
        \A p \in edges(heap, objs[g]) :
            LET r == weight(heap, objs[g], p[1], p[2])
            IN r.res = "ok" /\ r.val = 1

\* C14: in an Undirected graph, for every node u and every v of
\* neighbors(u), weight(u, v) returns and equals weight(v, u); and a
\* DijkstraIterator over an Undirected graph never raises the edge error of
\* weight() while relaxing.
C14_UndirectedWeights ==
    \A g \in GraphIds : (Live(g) /\ objs[g].kind = "Undirected") =>
        LET o == objs[g]
        IN /\ \A u \in nodes(heap, o) :
                  \A v \in neighbors(heap, o, u).val :
                      /\ weight(heap, o, u, v).res = "ok"
                      /\ weight(heap, o, v, u).res = "ok"
                      /\ weight(heap, o, u, v).val = weight(heap, o, v, u).val
           /\ (it.cls = "Dijkstra" /\ it.graph = g) =>
                  it.status # "EdgeNotDefined"

\* C16: a DepthFirstIterator or BreadthFirstIterator started at a node v
\* never returns a node twice nor a node that is not reachable from v, and
\* when it raises StopIteration it has returned exactly the nodes reachable
\* from v (v among them).
C16_TraversalVisitsReachable ==
    (it.cls \in {"DFS", "BFS"} /\ it.status \in {"running", "StopIteration"})
        => LET R == Reachable(heap, objs[it.graph], it.start)
           IN /\ Distinct(it.out)
              /\ Range(it.out) \subseteq R
              /\ it.status = "StopIteration" => Range(it.out) = R

C18_DijkstraShortest ==
    /\ (it.cls = "Dijkstra" /\ NonNegative(heap, objs[it.graph])) =>
           \A k \in DOMAIN it.out :
               it.dist[k] =
                   ShortestLength(heap, objs[it.graph], it.start)[it.out[k]]
    /\ (/\ alg.op = "distance"
        /\ NonNegative(heap, TheGraph)
        /\ alg.s \in nodes(heap, TheGraph)
        /\ alg.t \in Reachable(heap, TheGraph, alg.s)) =>
           /\ alg.res = "ok"
           /\ alg.d = ShortestLength(heap, TheGraph, alg.s)[alg.t]

\* C19: every node an iterator returns is reachable from its start node, and
\* a DijkstraIterator returns no node at distance inf.
C19_YieldedReachable ==
    it.cls # "none" =>
        /\ Range(it.out) \subseteq Reachable(heap, objs[it.graph], it.start)
        /\ \A k \in DOMAIN it.dist : it.dist[k] # inf

\* C20: shortest_path(g, s, t) and distance(g, s, t) raise the unreachable
\* error whenever s and t are nodes of g and t is not reachable from s.
C20_Unreachable ==
    (/\ alg.op \in {"shortest_path", "distance"}
     /\ alg.s \in nodes(heap, TheGraph)
     /\ alg.t \in nodes(heap, TheGraph)
     /\ alg.t \notin Reachable(heap, TheGraph, alg.s)) =>
        alg.res = "Unreachable"

\* The total weight of the steps of a list of nodes.
RECURSIVE PathWeight(_, _, _)
PathWeight(h, o, path) ==
    IF Len(path) < 2 THEN 0
    ELSE Min(StepWeights(h, o, path[1], path[2]))
             + PathWeight(h, o, Tail(path))

\* C21: when t is reachable from s (weights non-negative),
\* shortest_path(g, s, t) returns a list that starts with s, ends with t,
\* whose consecutive nodes are joined by edges of g, and whose total weight
\* is the length of a shortest path from s to t.
C21_ShortestPathIsPath ==
    (/\ alg.op = "shortest_path"
     /\ NonNegative(heap, TheGraph)
     /\ alg.s \in nodes(heap, TheGraph)
     /\ alg.t \in Reachable(heap, TheGraph, alg.s)) =>
        /\ alg.res = "ok"
        /\ alg.path # <<>>
        /\ alg.path[1] = alg.s
        /\ alg.path[Len(alg.path)] = alg.t
        /\ \A k \in 1..(Len(alg.path) - 1) :
               StepWeights(heap, TheGraph, alg.path[k], alg.path[k + 1]) # {}
        /\ PathWeight(heap, TheGraph, alg.path)
               = ShortestLength(heap, TheGraph, alg.s)[alg.t]

\* The recursive depth-first search from u that explores the neighbours of
\* each node in ascending key order: st is the set of nodes found so far
\* with the lists of nodes in the order it entered them (pre) and in the
\* order it was done with them (post).
RECURSIVE RefVisit(_, _, _, _, _)
RECURSIVE RefEach(_, _, _, _, _)
RefVisit(h, o, key, u, st) ==
    LET entered == [st EXCEPT !.found = @ \cup {u}, !.pre = Append(@, u)]
        done == RefEach(h, o, key,
                        sorted(neighbors(h, o, u).val \cap nodes(h, o), key),
                        entered)
    IN [done EXCEPT !.post = Append(@, u)]

RefEach(h, o, key, vs, st) ==
    IF vs = <<>> THEN st
    ELSE RefEach(h, o, key, Tail(vs),
                 IF Head(vs) \in st.found THEN st
                 ELSE RefVisit(h, o, key, Head(vs), st))

RefSearch(h, o, key, v) ==
    RefVisit(h, o, key, v, [found |-> {}, pre |-> <<>>, post |-> <<>>])

\* C22: post_order(g, v) raises the node error when v is not a node of g,
\* and otherwise returns the nodes reachable from v in the order in which
\* the recursive depth-first search from v, taking neighbours in ascending
\* order, is done with them.
C22_PostOrder ==
    alg.op = "post_order" =>
        IF alg.s \notin nodes(heap, TheGraph)
        THEN alg.res = "NodeNotDefined"
        ELSE /\ alg.res = "ok"
             /\ alg.path = RefSearch(heap, TheGraph, "none", alg.s).post

\* Node u lies on a cycle of neighbors() steps.
OnCycle(h, o, u) ==
    \E v \in neighbors(h, o, u).val \cap nodes(h, o) :
        u \in Reachable(h, o, v)

\* Node u lies on a cycle or can be reached from one.
BehindCycle(h, o, u) ==
    \E c \in nodes(h, o) : OnCycle(h, o, c) /\ u \in Reachable(h, o, c)

\* Every edge of g both of whose ends are in the list has its first end
\* earlier in the list.
Ordered(h, o, order) ==
    \A p \in edges(h, o) :
        \A j \in DOMAIN order, k \in DOMAIN order :
            (order[j] = p[1] /\ order[k] = p[2]) => j < k

\* C23: on a directed graph without a cycle, topological_sort returns a
\* list that has every node of the graph exactly once and, for every edge
\* (u, v), u before v; on the empty graph it returns the empty list.
C23_TopologicalSortDag ==
    (/\ alg.op = "topological_sort"
     /\ TheGraph.kind = "Graph"
     /\ \A u \in nodes(heap, TheGraph) : ~OnCycle(heap, TheGraph, u)) =>
        /\ alg.res = "ok"
        /\ Distinct(alg.path)
        /\ Range(alg.path) = nodes(heap, TheGraph)
        /\ edges(heap, TheGraph) \subseteq Range(alg.path) \X Range(alg.path)
        /\ Ordered(heap, TheGraph, alg.path)

\* C24: on a graph with a cycle, topological_sort returns without raising,
\* and its list has exactly the nodes that neither lie on a cycle nor can
\* be reached from one, each once, with u before v for every edge (u, v)
\* among them.
C24_TopologicalSortCycle ==
    (/\ alg.op = "topological_sort"
     /\ \E u \in nodes(heap, TheGraph) : OnCycle(heap, TheGraph, u)) =>
        /\ alg.res = "ok"
        /\ Distinct(alg.path)
        /\ Range(alg.path) = {u \in nodes(heap, TheGraph) :
                                 ~BehindCycle(heap, TheGraph, u)}
        /\ Ordered(heap, TheGraph, alg.path)

\* The nodes joined to the nodes S by a path of neighbors() steps taken in
\* either direction.
RECURSIVE ConnectedTo(_, _, _)
ConnectedTo(h, o, S) ==
    LET T == S \cup {v \in nodes(h, o) :
                        \E u \in S : \/ v \in neighbors(h, o, u).val
                                     \/ u \in neighbors(h, o, v).val}
    IN IF T = S THEN S ELSE ConnectedTo(h, o, T)

\* C25: components(g) on an Undirected graph returns non-empty sets of
\* nodes, no two of which share a node, whose union is nodes(), each of them
\* the set of all nodes connected to any one of its nodes.
C25_Components ==
    (alg.op = "components" /\ TheGraph.kind = "Undirected") =>
        /\ alg.res = "ok"
        /\ \A k \in DOMAIN alg.comps :
               /\ alg.comps[k] # {}
               /\ \A u \in alg.comps[k] :
                      alg.comps[k] = ConnectedTo(heap, TheGraph, {u})
        /\ \A j \in DOMAIN alg.comps, k \in DOMAIN alg.comps :
               j # k => alg.comps[j] \cap alg.comps[k] = {}
        /\ UNION {alg.comps[k] : k \in DOMAIN alg.comps}
               = nodes(heap, TheGraph)

\* All that the fields of graph object o hold.
Contents(h, o) ==
    [nodes |-> NodeSet(h, o),
     a_in |-> [u \in DOMAIN AIn(h, o) |-> AInSet(h, o, u)],
     a_out |-> [u \in DOMAIN AOut(h, o) |-> AOutSet(h, o, u)],
     weights |-> WeightDict(h, o)]

SetMutations == {"set_add", "set_discard"}

GraphMutations == {"add_node", "add_edge", "remove_node", "remove_edge"}

\* C27: the set that nodes(), parents(v) or neighbors(u) returns holds what
\* the query reports and is not a view of the graph: the query leaves the
\* graph as it was, a mutation of the returned set leaves the graph as it
\* was, and a mutation of the graph leaves the returned set as it was.
C27_Snapshots ==
    [][/\ (alg.op = "none" /\ alg'.op # "none" /\ alg'.res = "ok") =>
              /\ Contents(heap', TheGraph) = Contents(heap, TheGraph)
              /\ SetAt(heap', alg'.ref) =
                     CASE alg'.op = "nodes" -> nodes(heap, TheGraph)
                       [] alg'.op = "parents" ->
                              parents(heap, TheGraph, alg'.s).val
                       [] OTHER -> neighbors(heap, TheGraph, alg'.s).val
       /\ last'.op \in SetMutations =>
              Contents(heap', TheGraph) = Contents(heap, TheGraph)
       /\ (alg.ref # NoRef /\ last'.op \in GraphMutations) =>
              SetAt(heap', alg.ref) = SetAt(heap, alg.ref)
      ]_vars

\* The caller holds the set nodes() returned, has added a node to the set
\* that is not a node of the graph, and the graph has since got a node that
\* the set does not hold.
C27_Witness ==
    /\ alg.op = "nodes"
    /\ SetAt(heap, alg.ref) # alg.comps[1]
    /\ SetAt(heap, alg.ref) \ nodes(heap, TheGraph) # {}
    /\ nodes(heap, TheGraph) \ SetAt(heap, alg.ref) # {}

\* The neighbor relation of a graph: the pairs (u, v) with u a node and v
\* in neighbors(u).
NeighborRelation(h, o) ==
    {p \in nodes(h, o) \X AllNodes : p[2] \in neighbors(h, o, p[1]).val}

\* C26: two Undirected graphs compare equal if and only if they have the
\* same nodes and the same neighbor relation, whichever direction of an
\* edge each of them stores; and Undirected(u) equals u.
C26_UndirectedEq ==
    last.op = "eq" =>
        /\ alg.res = "True" <=>
               /\ nodes(heap, objs[1]) = nodes(heap, objs[2])
               /\ NeighborRelation(heap, objs[1])
                      = NeighborRelation(heap, objs[2])
        /\ calls = 0 => alg.res = "True"

\* Two Undirected graphs that store different directions of their edges
\* have been compared, after calls on them that succeeded, and are equal.
C26_Witness ==
    /\ last.op = "eq"
    /\ alg.res = "True"
    /\ calls > 0
    /\ edges(heap, objs[1]) # edges(heap, objs[2])
    /\ edges(heap, objs[1]) # {}

IsPrefix(s, t) == Len(s) <= Len(t) /\ s = SubSeq(t, 1, Len(s))

\* C28: the nodes a DepthFirstIterator returns are, in order, the nodes the
\* recursive depth-first search from its start enters, taking the
\* neighbours of each node in ascending key order; when it raises
\* StopIteration it has returned all of them.
C28_DepthFirstPreOrder ==
    (it.cls = "DFS" /\ it.status \in {"running", "StopIteration"}) =>
        LET pre == RefSearch(heap, objs[it.graph], it.key, it.start).pre
        IN /\ IsPrefix(it.out, pre)
           /\ it.status = "StopIteration" => it.out = pre

\* The reference breadth-first search: a FIFO queue of discovered nodes;
\* visiting a node enqueues its undiscovered neighbours in ascending key
\* order.
RECURSIVE RefBreadthFirst(_, _, _, _, _, _)
RefBreadthFirst(h, o, key, queue, discovered, out) ==
    IF queue = <<>> THEN out
    ELSE LET u == Head(queue)
             New(v) == v \notin discovered
             ns == SelectSeq(sorted(neighbors(h, o, u).val \cap nodes(h, o),
                                    key), New)
         IN RefBreadthFirst(h, o, key, Tail(queue) \o ns,
                            discovered \cup Range(ns), Append(out, u))

\* The least number of neighbors() steps from the nodes S, k steps from
\* the start, to each node they lead to; seen are the nodes nearer than S.
RECURSIVE HopsFrom(_, _, _, _, _)
HopsFrom(h, o, S, seen, k) ==
    IF S = {} THEN [v \in {} |-> 0]
    ELSE LET T == {v \in nodes(h, o) \ (seen \cup S) :
                      \E u \in S : v \in neighbors(h, o, u).val}
             far == HopsFrom(h, o, T, seen \cup S, k + 1)
         IN [v \in S \cup DOMAIN far |-> IF v \in S THEN k ELSE far[v]]

\* C29: the nodes a BreadthFirstIterator returns are, in order, those of the
\* reference breadth-first search from its start, so their numbers of edges
\* on a shortest path from the start never decrease; when it raises
\* StopIteration it has returned all of them.
C29_BreadthFirstLevelOrder ==
    (it.cls = "BFS" /\ it.status \in {"running", "StopIteration"}) =>
        LET ref == RefBreadthFirst(heap, objs[it.graph], it.key,
                                   <<it.start>>, {it.start}, <<>>)
            hops == HopsFrom(heap, objs[it.graph], {it.start}, {}, 0)
        IN /\ IsPrefix(it.out, ref)
           /\ it.status = "StopIteration" => it.out = ref
           /\ \A k \in 1..(Len(it.out) - 1) :
                  hops[it.out[k]] <= hops[it.out[k + 1]]

\* The iterator's worklist holds a node it has not returned.
HoldsUnvisited(i) ==
    IF i.cls = "Dijkstra" THEN DOMAIN i.heapdict \cap i.remaining # {}
    ELSE Range(i.worklist) \cap i.remaining # {}

\* C30: next() raises StopIteration only when the worklist holds no node
\* that has not been returned, and once it has raised StopIteration every
\* later next() raises it again and returns nothing.
C30_EndOfSequence ==
    [][/\ (it.status = "running" /\ it'.status = "StopIteration") =>
              ~HoldsUnvisited(it)
       /\ it.status = "StopIteration" =>
              (it'.status = "StopIteration" /\ it'.out = it.out)
      ]_vars

\* The nodes topological_sort can remove at step k of an order: those not
\* removed by an earlier step all of whose parents were.
ReadyAt(h, o, order, k) ==
    LET done == {order[j] : j \in 1..(k - 1)}
    IN {v \in nodes(h, o) \ done : parents(h, o, v).val \subseteq done}

\* C31: at every step of topological_sort the node removed from the ready
\* list is the ready node with the least key(node) when a key is given and
\* the least node when none is; the key is applied to nodes, so no step
\* raises a TypeError on these integer nodes.
C31_PopMinByKey ==
    alg.op = "topological_sort" =>
        /\ alg.res # "TypeError"
        /\ \A k \in DOMAIN alg.path :
               /\ alg.path[k] \in ReadyAt(heap, TheGraph, alg.path, k)
               /\ \A x \in ReadyAt(heap, TheGraph, alg.path, k) :
                      KeyOf(alg.key, alg.path[k]) <= KeyOf(alg.key, x)

\* The node a call of next() took out of the HeapDict of a DijkstraIterator.
Extracted == DOMAIN it.heapdict \ DOMAIN it'.heapdict

\* C32: the node a step of a DijkstraIterator extracts has the least
\* distance among the nodes still in the HeapDict, and among those at that
\* distance the least key under the key function the iterator was given.
C32_DijkstraTiesByKey ==
    [][(it.cls = "Dijkstra" /\ it'.cls = "Dijkstra") =>
           \A u \in Extracted : \A v \in DOMAIN it.heapdict :
               /\ it.heapdict[u] <= it.heapdict[v]
               /\ it.heapdict[v] = it.heapdict[u] =>
                      KeyOf(it.key, u) <= KeyOf(it.key, v)]_vars

\* C33: when a successful remove_node(u) is followed by a successful
\* add_node(u) on the same graph, u then has no neighbour and no parent, no
\* pair of edges() has u in it, and add_edge(w, u) and add_edge(u, w)
\* succeed for every other node w of the graph.
C33_ReAddedNodeIsFresh ==
    [][(/\ Returned("remove_node")
        /\ last'.op = "add_node" /\ last'.res = "ok"
        /\ last'.g = last.g /\ last'.u = last.u) =>
           LET o == objs'[last'.g]
               u == last'.u
           IN /\ neighbors(heap', o, u).val = {}
              /\ parents(heap', o, u).val = {}
              /\ \A p \in edges(heap', o) : p[1] # u /\ p[2] # u
              /\ \A w \in nodes(heap', o) \ {u} :
                     /\ add_edge(heap', o, w, u, NoWeight).res = "ok"
                     /\ add_edge(heap', o, u, w, NoWeight).res = "ok"]_vars

\* The object a step has just constructed from the other one.
Constructed == CHOOSE g \in GraphIds : ~Live(g)

\* C34: a graph constructed from another one has on every pair of its
\* edges() its own default weight, whatever the weights of the source were,
\* and the construction leaves the weights of the source as they were.
C34_CopyDropsWeights ==
    [][(Live(1) # Live(2) /\ TwoLive') =>
           LET new == objs'[Constructed]
               src == objs[CHOOSE g \in GraphIds : Live(g)]
           IN /\ \A p \in edges(heap', new) :
                     /\ weight(heap', new, p[1], p[2]).res = "ok"
                     /\ weight(heap', new, p[1], p[2]).val
                            = new.default_weight
              /\ WeightDict(heap', src) = WeightDict(heap, src)
              /\ \A p \in edges(heap, src) :
                     weight(heap', src, p[1], p[2])
                         = weight(heap, src, p[1], p[2])]_vars

\* C35: components(g) returns on every Undirected graph, whatever its node
\* values: every pass of its loop discovers at least the node it started
\* from, so no pass leaves the working set as it found it.
C35_ComponentsTerminates ==
    alg.op = "components" =>
        /\ alg.res # "NoReturn"
        /\ \A k \in DOMAIN alg.comps : alg.comps[k] # {}

====
